---------------------------- MODULE Spec2Model ----------------------------
(***************************************************************************)
(* Image resolution of pkg/image (resolve.go, charts.go).                  *)
(*                                                                         *)
(* Go strings whose contents the code inspects, concatenates, splits or    *)
(* sorts are sequences of one-character strings, so that formatting,       *)
(* prefix tests and byte-wise ordering are computed and not assumed.       *)
(* Keys of parsed YAML mappings and of collection objects are only ever    *)
(* compared for equality and are plain TLA+ strings.                       *)
(***************************************************************************)
EXTENDS Integers, Sequences, FiniteSets, TLC

VARIABLES
    pc,                   \* position inside GetImages (or inside the operation under study)
    osType,               \* GetImages parameter
    systemChartPath,      \* GetImages parameter
    chartPath,            \* GetImages parameter
    rancherVersion,       \* GetImages parameter
    k3sUpgradeImages,     \* GetImages parameter
    imagesFromArgs,       \* GetImages parameter
    rkeSystemImages,      \* GetImages parameter
    repos,                \* what the bundle index and the file system hold, per repository path
    imagesSet,            \* the accumulator: image -> (source -> bool)
    toVisit,              \* convertMirroredImages: keys the range loop still has to produce
    mayVisit,             \* convertMirroredImages: keys created during the loop, not produced yet
    imagesList,           \* first result of GetImages
    imagesAndSourcesList, \* second result of GetImages
    err,                  \* error result of GetImages ("" when nil)
    chartVersions,        \* result of the last getChartVersions call
    emitted,              \* history: the (image, source, phase) triples handed to addSourceToImage
    before,               \* history: the accumulator when the operation under study started
    root,                 \* the configuration tree a walk is run on
    visits                \* history: the mappings handed to the walk function, call by call

inputs == <<osType, systemChartPath, chartPath, rancherVersion, k3sUpgradeImages,
            imagesFromArgs, rkeSystemImages, repos>>
outputs == <<imagesList, imagesAndSourcesList, err>>
walk == <<root, visits>>
vars == <<pc, inputs, imagesSet, toVisit, mayVisit, outputs, chartVersions, emitted, before,
          walk>>

----------------------------------------------------------------------------
(* Strings *)

\* The characters used, in ascending byte order.
AsciiOrder ==
    <<" ", "+", ",", "-", ".", "/",
      "0", "1", "2", "3", "4", "5", "6", "7", "8", "9", ":", "<", ">",
      "A", "B", "C", "D", "E", "F", "G", "H", "I", "J", "K", "L", "M",
      "N", "O", "P", "Q", "R", "S", "T", "U", "V", "W", "X", "Y", "Z",
      "a", "b", "c", "d", "e", "f", "g", "h", "i", "j", "k", "l", "m",
      "n", "o", "p", "q", "r", "s", "t", "u", "v", "w", "x", "y", "z">>

Chars == {AsciiOrder[i] : i \in 1..Len(AsciiOrder)}

\* Position of a character in byte order.
CodeOf == [c \in Chars |-> CHOOSE i \in 1..Len(AsciiOrder) : AsciiOrder[i] = c]

Digits == {"0", "1", "2", "3", "4", "5", "6", "7", "8", "9"}
UpperChars == {c \in Chars : CodeOf[c] >= CodeOf["A"] /\ CodeOf[c] <= CodeOf["Z"]}

\* Go's < on strings: byte-wise lexicographic.
RECURSIVE StrLess(_, _)
StrLess(a, b) ==
    IF b = <<>> THEN FALSE
    ELSE IF a = <<>> THEN TRUE
    ELSE IF Head(a) = Head(b) THEN StrLess(Tail(a), Tail(b))
    ELSE CodeOf[Head(a)] < CodeOf[Head(b)]

\* strings.HasPrefix
HasPrefix(s, p) == Len(p) <= Len(s) /\ SubSeq(s, 1, Len(p)) = p

\* strings.Index: first position (1-based) where sub occurs in s, 0 when absent.
Index(s, sub) ==
    LET hits == {i \in 1..(Len(s) - Len(sub) + 1) : SubSeq(s, i, i + Len(sub) - 1) = sub}
    IN IF hits = {} THEN 0 ELSE CHOOSE i \in hits : \A j \in hits : i <= j

\* strings.Contains
Contains(s, sub) == Index(s, sub) > 0

\* strings.Replace(s, old, new, 1) for a non-empty old
Replace1(s, old, new) ==
    LET i == Index(s, old)
    IN IF i = 0 THEN s
       ELSE SubSeq(s, 1, i - 1) \o new \o SubSeq(s, i + Len(old), Len(s))

\* strings.ToLower
ToLowerChar(c) == IF c \in UpperChars THEN AsciiOrder[CodeOf[c] + 26] ELSE c
ToLower(s) == [i \in 1..Len(s) |-> ToLowerChar(s[i])]

\* strings.EqualFold
EqualFold(a, b) == ToLower(a) = ToLower(b)

\* strings.TrimSpace
TrimSpace(s) ==
    LET keep == {i \in 1..Len(s) : s[i] # " "}
    IN IF keep = {} THEN <<>>
       ELSE SubSeq(s, CHOOSE i \in keep : \A j \in keep : i <= j,
                      CHOOSE i \in keep : \A j \in keep : i >= j)

\* strings.Split(s, sep) for a one-character sep
RECURSIVE Split(_, _)
Split(s, sep) ==
    LET i == Index(s, <<sep>>)
    IN IF i = 0 THEN <<s>>
       ELSE <<SubSeq(s, 1, i - 1)>> \o Split(SubSeq(s, i + 1, Len(s)), sep)

\* strings.Join
RECURSIVE Join(_, _)
Join(elems, sep) ==
    IF elems = <<>> THEN <<>>
    ELSE IF Len(elems) = 1 THEN elems[1]
    ELSE elems[1] \o sep \o Join(Tail(elems), sep)

\* filepath.Base for a non-empty slash-separated path without a trailing slash
Base(p) ==
    LET parts == Split(p, "/")
    IN parts[Len(parts)]

\* Decimal digits of a natural number (fmt's %v and %d of an int).
RECURSIVE FormatInt(_)
FormatInt(n) ==
    IF n < 10 THEN <<AsciiOrder[CodeOf["0"] + n]>>
    ELSE FormatInt(n \div 10) \o <<AsciiOrder[CodeOf["0"] + (n % 10)]>>

\* The elements of a sequence.
Range(s) == {s[i] : i \in 1..Len(s)}

\* The sequences that list every element of a finite set once.
RECURSIVE Perms(_)
Perms(S) ==
    IF S = {} THEN {<<>>}
    ELSE UNION {{<<x>> \o p : p \in Perms(S \ {x})} : x \in S}

\* One order in which the keys of a map may be produced.
RECURSIVE SomeOrder(_)
SomeOrder(S) ==
    IF S = {} THEN <<>>
    ELSE LET x == CHOOSE y \in S : TRUE IN <<x>> \o SomeOrder(S \ {x})

Reverse(seq) == [i \in 1..Len(seq) |-> seq[Len(seq) + 1 - i]]

----------------------------------------------------------------------------
(* Literals of the source *)

SystemChartsRepoDir == <<"b", "u", "i", "l", "d", "/", "s", "y", "s", "t", "e", "m", "-",
                         "c", "h", "a", "r", "t", "s">>
Linux == "Linux"
Windows == "Windows"

SystemLabel == <<"s", "y", "s", "t", "e", "m">>
CoreLabel == <<"c", "o", "r", "e">>
RancherLabel == <<"r", "a", "n", "c", "h", "e", "r">>
K3sUpgradeLabel == <<"k", "3", "s", "U", "p", "g", "r", "a", "d", "e">>
Busybox == <<"b", "u", "s", "y", "b", "o", "x">>
\* settings.ShellImage.Get(): the configured shell image.
ShellImage == <<"r", "a", "n", "c", "h", "e", "r", "/", "s", "h", "e", "l", "l", ":", "v", "1">>

----------------------------------------------------------------------------
(* The accumulator *)

EmptyMap == [x \in {} |-> TRUE]

\* The sources of an image that are true in the accumulator.
TrueSources(set, image) ==
    IF image \in DOMAIN set THEN {s \in DOMAIN set[image] : set[image][s]} ELSE {}

\* The (image, source) pairs that are true in the accumulator.
TruePairs(set) == UNION {{<<i, s>> : s \in TrueSources(set, i)} : i \in DOMAIN set}

\* addSourceToImage as it would be if it replaced the sources of the image.
AddSourceDropOthers(set, image, sources) ==
    [k \in DOMAIN set \cup {image} |->
        IF k = image THEN [s \in Range(sources) |-> TRUE] ELSE set[k]]

\* addSourceToImage(imagesSet, image, sources...)
AddSourceToImage(set, image, sources) ==
    LET cur == IF image \in DOMAIN set THEN set[image] ELSE EmptyMap
    IN [k \in DOMAIN set \cup {image} |->
           IF k = image
           THEN [s \in DOMAIN cur \cup Range(sources) |->
                    IF s \in Range(sources) THEN TRUE ELSE cur[s]]
           ELSE set[k]]

\* setImages as it would be if its loop stopped one image short.
RECURSIVE SetImagesSkipLast(_, _, _)
SetImagesSkipLast(source, images, set) ==
    IF Len(images) <= 1 THEN set
    ELSE SetImagesSkipLast(source, Tail(images), AddSourceToImage(set, Head(images), <<source>>))

\* setImages(source, imagesFromArgs, imagesSet)
RECURSIVE SetImages(_, _, _)
SetImages(source, images, set) ==
    IF images = <<>> THEN set
    ELSE SetImages(source, Tail(images), AddSourceToImage(set, Head(images), <<source>>))

\* setRequirementImages(osType, imagesSet)
SetRequirementImages(os, set) ==
    IF os = Linux
    THEN AddSourceToImage(AddSourceToImage(set, ShellImage, <<CoreLabel>>), Busybox, <<CoreLabel>>)
    ELSE set

----------------------------------------------------------------------------
(* Mirror normalization *)

\* The rewrite rules of img.Mirror, applied in order, each to the first occurrence.
MirrorRules ==
    << [old |-> <<"d", ".", "i", "o", "/">>, new |-> <<>>],
       [old |-> <<"g", ".", "i", "o", "/">>, new |-> <<>>] >>

RECURSIVE ApplyRules(_, _)
ApplyRules(image, rules) ==
    IF rules = <<>> THEN image
    ELSE ApplyRules(Replace1(image, Head(rules).old, Head(rules).new), Tail(rules))

\* img.Mirror(image)
Mirror(image) == ApplyRules(image, MirrorRules)

\* The inner loop of convertMirroredImages: every true source of image is
\* added under convertedImage, one addSourceToImage call per true source.
RECURSIVE MigrateSources(_, _, _)
MigrateSources(set, convertedImage, sources) ==
    IF sources = {} THEN set
    ELSE LET s == CHOOSE x \in sources : TRUE
         IN MigrateSources(AddSourceToImage(set, convertedImage, <<s>>),
                           convertedImage, sources \ {s})

\* delete(imagesSet, image)
Delete(set, image) == [k \in DOMAIN set \ {image} |-> set[k]]

\* The loop body as it would be if it replaced the entry of convertedImage.
ConvertImageDropTarget(set, image) ==
    LET convertedImage == Mirror(image)
    IN IF image = convertedImage THEN set
       ELSE Delete(MigrateSources(Delete(set, convertedImage), convertedImage,
                                  TrueSources(set, image)), image)

\* One iteration of the range loop of convertMirroredImages, on key image.
ConvertImage(set, image) ==
    LET convertedImage == Mirror(image)
    IN IF image = convertedImage THEN set
       ELSE Delete(MigrateSources(set, convertedImage, TrueSources(set, image)), image)

----------------------------------------------------------------------------
(* Output lists *)

\* Insert s into an ascending sequence.
RECURSIVE InsertSorted(_, _)
InsertSorted(sorted, s) ==
    IF sorted = <<>> THEN <<s>>
    ELSE IF StrLess(s, Head(sorted)) THEN <<s>> \o sorted
    ELSE <<Head(sorted)>> \o InsertSorted(Tail(sorted), s)

\* sort.Strings / sort.Slice with images[i] < images[j]
RECURSIVE SortStrings(_)
SortStrings(seq) ==
    IF seq = <<>> THEN <<>>
    ELSE InsertSorted(SortStrings(Tail(seq)), Head(seq))

\* getSourcesList(imageSources), the map being ranged over in the order given
GetSourcesListIn(imageSources, order) ==
    Join(SortStrings(SelectSeq(order, LAMBDA s : imageSources[s])), <<",">>)

\* getSourcesList(imageSources)
GetSourcesList(imageSources) ==
    GetSourcesListIn(imageSources, SomeOrder(DOMAIN imageSources))

\* The images as they would be without the sort.
ImagesUnsorted(set, order) == order

\* generateImageAndSourceLists: the sorted image names, the keys being
\* produced in the order given
ImagesSorted(set, order) == SortStrings(order)

\* generateImageAndSourceLists: the line of one image, "%s %s"
ImageAndSources(set, image) == image \o <<" ">> \o GetSourcesList(set[image])

\* generateImageAndSourceLists, lines 362-366: the lines of the sorted images.
ListsOf(set, images) ==
    <<images, [i \in 1..Len(images) |-> ImageAndSources(set, images[i])]>>

\* generateImageAndSourceLists(imagesSet), the keys being produced in the order given
GenerateImageAndSourceLists(set, order) == ListsOf(set, ImagesSorted(set, order))

----------------------------------------------------------------------------
(* Parsed YAML values *)

MapNode(f) == [k |-> "map", m |-> f]
SeqNode(e) == [k |-> "seq", e |-> e]
StrNode(s) == [k |-> "str", s |-> s]
IntNode(n) == [k |-> "int", n |-> n]
NilNode == [k |-> "nil"]

\* v, ok := m[key].(string): the string under key, "" when absent or not a string
StringField(m, key) ==
    IF key \in DOMAIN m /\ m[key].k = "str" THEN m[key].s ELSE <<>>

----------------------------------------------------------------------------
(* Semantic versions (semver.NewVersion and the comparisons used) *)

IsNumber(s) == s # <<>> /\ \A i \in 1..Len(s) : s[i] \in Digits

RECURSIVE ParseInt(_)
ParseInt(s) ==
    IF s = <<>> THEN 0
    ELSE ParseInt(SubSeq(s, 1, Len(s) - 1)) * 10 + (CodeOf[s[Len(s)]] - CodeOf["0"])

NotAVersion == [ok |-> FALSE]

\* The version of one to three numbers (missing ones are 0) and a prerelease.
MakeVersion(parts, pre) ==
    IF Len(parts) <= 3 /\ \A i \in 1..Len(parts) : IsNumber(parts[i])
    THEN [ok |-> TRUE,
          major |-> ParseInt(parts[1]),
          minor |-> IF Len(parts) >= 2 THEN ParseInt(parts[2]) ELSE 0,
          patch |-> IF Len(parts) >= 3 THEN ParseInt(parts[3]) ELSE 0,
          pre |-> pre]
    ELSE NotAVersion

\* A prerelease is dot-separated identifiers, none empty.
IdentsOk(idents) == \A i \in 1..Len(idents) : idents[i] # <<>>

\* The version whose text t has its first dash at position dash (0: none).
ParseAtDash(t, dash) ==
    IF dash = 0 THEN MakeVersion(Split(t, "."), <<>>)
    ELSE IF IdentsOk(Split(SubSeq(t, dash + 1, Len(t)), "."))
    THEN MakeVersion(Split(SubSeq(t, 1, dash - 1), "."), SubSeq(t, dash + 1, Len(t)))
    ELSE NotAVersion

ParseNoV(t) == ParseAtDash(t, Index(t, <<"-">>))

\* semver.NewVersion(s): optional v, one to three dot-separated numbers,
\* optional -prerelease. Build metadata (+...) is not modelled: no version
\* text used here has any.
NewVersion(s) == ParseNoV(IF s # <<>> /\ s[1] = "v" THEN Tail(s) ELSE s)

\* Precedence of two prerelease identifiers: -1, 0 or 1.
CompareIdent(a, b) ==
    IF a = b THEN 0
    ELSE IF IsNumber(a) /\ IsNumber(b) THEN (IF ParseInt(a) < ParseInt(b) THEN -1 ELSE 1)
    ELSE IF IsNumber(a) THEN -1
    ELSE IF IsNumber(b) THEN 1
    ELSE IF StrLess(a, b) THEN -1 ELSE 1

\* The first comparison that is not 0 decides.
OrElse(c, rest) == IF c # 0 THEN c ELSE rest

RECURSIVE CompareIdents(_, _)
CompareIdents(a, b) ==
    IF a = <<>> /\ b = <<>> THEN 0
    ELSE IF a = <<>> THEN -1
    ELSE IF b = <<>> THEN 1
    ELSE OrElse(CompareIdent(Head(a), Head(b)), CompareIdents(Tail(a), Tail(b)))

\* Precedence of two prereleases: a release (empty) is above any prerelease.
ComparePre(a, b) ==
    IF a = b THEN 0
    ELSE IF a = <<>> THEN 1
    ELSE IF b = <<>> THEN -1
    ELSE CompareIdents(Split(a, "."), Split(b, "."))

CompareNum(x, y) == IF x = y THEN 0 ELSE IF x < y THEN -1 ELSE 1

\* (*Version).Compare
Compare(a, b) ==
    OrElse(CompareNum(a.major, b.major),
           OrElse(CompareNum(a.minor, b.minor),
                  OrElse(CompareNum(a.patch, b.patch), ComparePre(a.pre, b.pre))))

\* a.GreaterThan(b) || a.Equal(b)
GreaterOrEqual(a, b) == Compare(a, b) \in {1, 0}
\* a.LessThan(b) || a.Equal(b)
LessOrEqual(a, b) == Compare(a, b) \in {-1, 0}

----------------------------------------------------------------------------
(* Selection of chart versions *)

QuestionsYAML == <<"q", "u", "e", "s", "t", "i", "o", "n", "s", ".", "y", "a", "m", "l">>
QuestionsYML == <<"q", "u", "e", "s", "t", "i", "o", "n", "s", ".", "y", "m", "l">>
ValuesYAML == <<"v", "a", "l", "u", "e", "s", ".", "y", "a", "m", "l">>

NoError == ""

\* fetchVersionQuestions(version): the mapping of the last questions file among
\* the version's local files (an empty mapping when there is none), or an error.
IsQuestionsFile(path) ==
    EqualFold(Base(path), QuestionsYAML) \/ EqualFold(Base(path), QuestionsYML)

RECURSIVE FetchVersionQuestionsFrom(_, _, _)
FetchVersionQuestionsFrom(repo, files, questions) ==
    IF files = <<>> THEN [err |-> NoError, questions |-> questions]
    ELSE IF IsQuestionsFile(Head(files))
    THEN IF ~repo.files[Head(files)].ok
         THEN [err |-> "questions", questions |-> EmptyMap]
         ELSE FetchVersionQuestionsFrom(repo, Tail(files), repo.files[Head(files)].tree.m)
    ELSE FetchVersionQuestionsFrom(repo, Tail(files), questions)

FetchVersionQuestions(repo, version) ==
    FetchVersionQuestionsFrom(repo, version.LocalFiles, EmptyMap)

\* The range tests as they would be with exclusive bounds.
VerdictExclusive(rancherSemVer, minSemVer, max, maxSemVer) ==
    IF ~rancherSemVer.ok THEN "error"
    ELSE IF ~minSemVer.ok THEN "error"
    ELSE IF Len(max) > 0
    THEN IF ~maxSemVer.ok THEN "error"
         ELSE IF Compare(rancherSemVer, minSemVer) = 1 /\ Compare(rancherSemVer, maxSemVer) = -1
              THEN "append" ELSE "skip"
    ELSE IF Compare(rancherSemVer, minSemVer) = 1 THEN "append" ELSE "skip"

\* getVersionsInRancherMinMaxRange, lines 90-113: the decision on a version
\* that declares a minimum, from the parsed versions.
VerdictOfVersions(rancherSemVer, minSemVer, max, maxSemVer) ==
    IF ~rancherSemVer.ok THEN "error"
    ELSE IF ~minSemVer.ok THEN "error"
    ELSE IF Len(max) > 0
    THEN IF ~maxSemVer.ok THEN "error"
         ELSE IF GreaterOrEqual(rancherSemVer, minSemVer) /\ LessOrEqual(rancherSemVer, maxSemVer)
              THEN "append" ELSE "skip"
    ELSE IF GreaterOrEqual(rancherSemVer, minSemVer) THEN "append" ELSE "skip"

\* getVersionsInRancherMinMaxRange, lines 87-114: the decision on a version
\* from its min and max strings.
VerdictOfMinMax(target, min, max) ==
    IF Len(min) > 0
    THEN VerdictOfVersions(NewVersion(TrimSpace(target)), NewVersion(TrimSpace(min)),
                           max, NewVersion(TrimSpace(max)))
    ELSE "skip"

\* getVersionsInRancherMinMaxRange, lines 82-114: the decision on a version
\* from what fetchVersionQuestions returned.
VerdictOfQuestions(q, target) ==
    IF q.err # NoError THEN "error"
    ELSE VerdictOfMinMax(target, StringField(q.questions, "rancher_min_version"),
                                 StringField(q.questions, "rancher_max_version"))

\* The decision getVersionsInRancherMinMaxRange takes on one version:
\* "error", "append" or "skip".
VersionVerdict(repo, target, v) == VerdictOfQuestions(FetchVersionQuestions(repo, v), target)

\* The loop of getVersionsInRancherMinMaxRange over versions[i..], with the
\* versions appended so far.
RECURSIVE RangeLoop(_, _, _, _, _)
RECURSIVE RangeStep(_, _, _, _, _, _)
RangeLoop(repo, target, versions, i, acc) ==
    IF i > Len(versions) THEN [err |-> NoError, versions |-> acc]
    ELSE RangeStep(repo, target, versions, i, acc, VersionVerdict(repo, target, versions[i]))

RangeStep(repo, target, versions, i, acc, verdict) ==
    IF verdict = "error" THEN [err |-> "version", versions |-> <<>>]
    ELSE RangeLoop(repo, target, versions, i + 1,
                   IF verdict = "append" THEN Append(acc, versions[i]) ELSE acc)

\* The end of getVersionsInRancherMinMaxRange as it would be without the fallback.
NoFallback(r, versions) == r

\* getVersionsInRancherMinMaxRange, lines 116-120: the newest version when
\* none was appended.
Fallback(r, versions) ==
    IF r.err # NoError THEN r
    ELSE IF Len(r.versions) <= 0
    THEN [err |-> NoError, versions |-> Append(r.versions, versions[1])]
    ELSE r

\* getVersionsInRancherMinMaxRange(rancherVersion, versions), for len(versions) > 0
GetVersionsInRancherMinMaxRange(repo, target, versions) ==
    Fallback(RangeLoop(repo, target, versions, 1, <<>>), versions)

\* The body of the loop of getChartVersions for one index entry with len(versions) > 0.
SelectVersions(path, repo, target, versions) ==
    IF Contains(path, SystemChartsRepoDir)
    THEN GetVersionsInRancherMinMaxRange(repo, target, versions)
    ELSE [err |-> NoError, versions |-> <<versions[1]>>]

\* The loop of getChartVersions over the index entries produced in the order given.
RECURSIVE EntriesLoop(_, _, _, _, _)
RECURSIVE EntriesStep(_, _, _, _, _, _)
EntriesLoop(path, repo, target, order, acc) ==
    IF order = <<>> THEN [err |-> NoError, versions |-> acc]
    ELSE IF Len(repo.entries[Head(order)]) > 0
    THEN EntriesStep(path, repo, target, order, acc,
                     SelectVersions(path, repo, target, repo.entries[Head(order)]))
    ELSE EntriesLoop(path, repo, target, Tail(order), acc)

EntriesStep(path, repo, target, order, acc, r) ==
    IF r.err # NoError THEN [err |-> r.err, versions |-> <<>>]
    ELSE EntriesLoop(path, repo, target, Tail(order), acc \o r.versions)

\* getChartVersions(path, rancherVersion), the index entries being produced in
\* the order given. repo is what helm.LoadIndex finds at path.
GetChartVersions(path, repo, target, order) ==
    IF repo.loadErr THEN [err |-> "index", versions |-> <<>>]
    ELSE EntriesLoop(path, repo, target, order, <<>>)

----------------------------------------------------------------------------
(* Tree walks *)

\* walkthroughMap(inputMap, walkFunc): the sequences of mappings it may hand to
\* walkFunc, in the order of the calls. The range over a mapping produces its
\* entries in any order, each mapping in an order of its own.
RECURSIVE WalkthroughMap(_)
RECURSIVE WalkthroughValues(_, _)
WalkthroughMap(inputMap) ==
    {<<inputMap>> \o rest :
        rest \in UNION {WalkthroughValues(inputMap, keys) : keys \in Perms(DOMAIN inputMap)}}

\* The loop of walkthroughMap, the entries being produced in the order keys.
WalkthroughValues(inputMap, keys) ==
    IF keys = <<>> THEN {<<>>}
    ELSE {first \o rest :
            first \in (IF inputMap[Head(keys)].k = "map"
                       THEN WalkthroughMap(inputMap[Head(keys)].m)
                       ELSE {<<>>}),
            rest \in WalkthroughValues(inputMap, Tail(keys))}

\* walkMap(data, walkFunc): the sequences of mappings it may hand to walkFunc,
\* in the order of the calls. A mapping's entries are produced in any order,
\* the elements of a sequence in their own.
RECURSIVE WalkMap(_)
RECURSIVE WalkMapValues(_, _)
RECURSIVE WalkMapElems(_)
WalkMap(data) ==
    IF data.k = "map"
    THEN {<<data.m>> \o rest :
            rest \in UNION {WalkMapValues(data.m, keys) : keys \in Perms(DOMAIN data.m)}}
    ELSE IF data.k = "seq" THEN WalkMapElems(data.e)
    ELSE {<<>>}

\* The loop of walkMap over a mapping, the entries being produced in the order keys.
WalkMapValues(inputMap, keys) ==
    IF keys = <<>> THEN {<<>>}
    ELSE {first \o rest : first \in WalkMap(inputMap[Head(keys)]),
                          rest \in WalkMapValues(inputMap, Tail(keys))}

\* The loop of walkMap over a sequence.
WalkMapElems(elems) ==
    IF elems = <<>> THEN {<<>>}
    ELSE {first \o rest : first \in WalkMap(Head(elems)),
                          rest \in WalkMapElems(Tail(elems))}

----------------------------------------------------------------------------
(* Image extraction from a mapping *)

WindowsStr == <<"w", "i", "n", "d", "o", "w", "s">>
LinuxStr == <<"l", "i", "n", "u", "x">>
NilStr == <<"<", "n", "i", "l", ">">>

\* fmt's %v of a scalar
FormatV(node) ==
    IF node.k = "str" THEN node.s
    ELSE IF node.k = "int" THEN FormatInt(node.n)
    ELSE NilStr

\* fmt.Sprintf("%s:%v", repo, tag)
ImageName(repo, tag) == repo \o <<":">> \o FormatV(tag)

\* generateImages(chartNameAndVersion, inputMap, output, osType): the
\* (image, source) it hands to addSourceToImage, if any.
GenerateImages(chartNameAndVersion, inputMap, os) ==
    IF ~("repository" \in DOMAIN inputMap /\ inputMap["repository"].k = "str") THEN <<>>
    ELSE IF "tag" \notin DOMAIN inputMap THEN <<>>
    ELSE IF "os" \in DOMAIN inputMap /\ inputMap["os"].k = "str" /\ inputMap["os"].s = WindowsStr
    THEN (IF os # Windows THEN <<>>
          ELSE <<<<ImageName(inputMap["repository"].s, inputMap["tag"]), chartNameAndVersion>>>>)
    ELSE (IF os # Linux THEN <<>>
          ELSE <<<<ImageName(inputMap["repository"].s, inputMap["tag"]), chartNameAndVersion>>>>)

\* The loop of the visitor of pickImagesFromValuesMap over the tokens of the os
\* list: whether it reaches an addSourceToImage call.
RECURSIVE OsListMatches(_, _)
OsListMatches(tokens, os) ==
    IF tokens = <<>> THEN FALSE
    ELSE LET t == TrimSpace(ToLower(Head(tokens)))
         IN IF t = WindowsStr /\ os = Windows THEN TRUE
            ELSE IF t = LinuxStr /\ os = Linux THEN TRUE
            ELSE OsListMatches(Tail(tokens), os)

\* The visitor of pickImagesFromValuesMap: the (image, source) it hands to
\* addSourceToImage, if any.
PickImage(chartNameAndVersion, inputMap, os) ==
    IF ~("repository" \in DOMAIN inputMap /\ inputMap["repository"].k = "str") THEN <<>>
    ELSE IF ~("tag" \in DOMAIN inputMap /\ inputMap["tag"].k = "str") THEN <<>>
    ELSE LET imageName == ImageName(inputMap["repository"].s, inputMap["tag"])
         IN IF "os" \in DOMAIN inputMap /\ inputMap["os"].k = "str"
            THEN (IF OsListMatches(Split(inputMap["os"].s, ","), os)
                  THEN <<<<imageName, chartNameAndVersion>>>> ELSE <<>>)
            ELSE (IF os = Linux THEN <<<<imageName, chartNameAndVersion>>>> ELSE <<>>)

\* The calls of addSourceToImage that generateImages makes when walkthroughMap
\* hands it the mappings maps in turn.
RECURSIVE GenerateImagesOver(_, _, _)
GenerateImagesOver(chartNameAndVersion, maps, os) ==
    IF maps = <<>> THEN <<>>
    ELSE GenerateImages(chartNameAndVersion, Head(maps), os)
             \o GenerateImagesOver(chartNameAndVersion, Tail(maps), os)

\* The calls of addSourceToImage that the visitor of pickImagesFromValuesMap
\* makes when walkMap hands it the mappings maps in turn.
RECURSIVE PickImageOver(_, _, _)
PickImageOver(chartNameAndVersion, maps, os) ==
    IF maps = <<>> THEN <<>>
    ELSE PickImage(chartNameAndVersion, Head(maps), os)
             \o PickImageOver(chartNameAndVersion, Tail(maps), os)

\* pickImagesFromValuesMap(imagesSet, values, chartNameAndVersion, osType): the
\* sequences of calls of addSourceToImage it may make.
PickImagesFromValuesMap(values, chartNameAndVersion, os) ==
    {PickImageOver(chartNameAndVersion, maps, os) : maps \in WalkMap(values)}

\* The accumulator after the calls addSourceToImage(image, source) of emissions.
RECURSIVE AddAll(_, _)
AddAll(set, emissions) ==
    IF emissions = <<>> THEN set
    ELSE AddAll(AddSourceToImage(set, Head(emissions)[1], <<Head(emissions)[2]>>),
                Tail(emissions))

----------------------------------------------------------------------------
(* Extraction from a chart repository *)

\* The loop of pickImagesFromValuesYAML over chartVersions: "name:version" of
\* the first version whose Dir is a prefix of relPath, "" when there is none.
RECURSIVE ChartNameAndVersion(_, _)
ChartNameAndVersion(cvs, relPath) ==
    IF cvs = <<>> THEN <<>>
    ELSE IF HasPrefix(relPath, Head(cvs).Dir)
    THEN Head(cvs).Name \o <<":">> \o Head(cvs).Version
    ELSE ChartNameAndVersion(Tail(cvs), relPath)

\* pickImagesFromValuesYAML, lines 156-172, for the file at relPath that
\* belongs to chartNameAndVersion: the results it may have, each an error or
\* the calls of addSourceToImage in the order of one walk.
PickImagesOfChart(repo, chartNameAndVersion, relPath, os) ==
    IF chartNameAndVersion = <<>> THEN {[err |-> NoError, emissions |-> <<>>]}
    ELSE IF ~repo.files[relPath].ok THEN {[err |-> "values", emissions |-> <<>>]}
    ELSE {[err |-> NoError, emissions |-> GenerateImagesOver(chartNameAndVersion, maps, os)] :
            maps \in WalkthroughMap(repo.files[relPath].tree.m)}

\* pickImagesFromValuesYAML for the file at relPath: the results it may have.
PickImagesFromValuesYAML(repo, cvs, relPath, os) ==
    IF Base(relPath) # ValuesYAML THEN {[err |-> NoError, emissions |-> <<>>]}
    ELSE PickImagesOfChart(repo, ChartNameAndVersion(cvs, relPath), relPath, os)

\* Lexical order of two lists of path elements, element by element.
RECURSIVE ElementsLess(_, _)
ElementsLess(a, b) ==
    IF b = <<>> THEN FALSE
    ELSE IF a = <<>> THEN TRUE
    ELSE IF Head(a) = Head(b) THEN ElementsLess(Tail(a), Tail(b))
    ELSE StrLess(Head(a), Head(b))

\* filepath.Walk reaches the file at a before the file at b: it reads the names
\* of a directory in lexical order and walks each one, with all below it,
\* before the next.
WalkedBefore(a, b) == ElementsLess(Split(a, "/"), Split(b, "/"))

\* Insert path p into a sequence that is in the order of the walk.
RECURSIVE InsertWalked(_, _)
InsertWalked(walked, p) ==
    IF walked = <<>> THEN <<p>>
    ELSE IF WalkedBefore(p, Head(walked)) THEN <<p>> \o walked
    ELSE <<Head(walked)>> \o InsertWalked(Tail(walked), p)

\* The files at paths in the order in which filepath.Walk reaches them.
RECURSIVE WalkOrder(_)
WalkOrder(paths) ==
    IF paths = <<>> THEN <<>>
    ELSE InsertWalked(WalkOrder(Tail(paths)), Head(paths))

\* filepath.Walk over the files of the repository, in the order of the walk,
\* stopping at the first error: the results it may have, each the error, if any, and
\* the calls of addSourceToImage made up to there. The calls made before an
\* error have changed imagesSet already and stay made.
RECURSIVE WalkFiles(_, _, _, _, _)
RECURSIVE WalkStep(_, _, _, _, _, _)
WalkFiles(repo, cvs, paths, os, acc) ==
    IF paths = <<>> THEN {[err |-> NoError, emissions |-> acc]}
    ELSE UNION {WalkStep(repo, cvs, paths, os, acc, r) :
                   r \in PickImagesFromValuesYAML(repo, cvs, Head(paths), os)}

\* The walk after the visit of the file Head(paths) gave r.
WalkStep(repo, cvs, paths, os, acc, r) ==
    IF r.err # NoError THEN {[err |-> r.err, emissions |-> acc]}
    ELSE WalkFiles(repo, cvs, Tail(paths), os, acc \o r.emissions)

\* fetchImagesFromCharts, lines 283-293, given what getChartVersions returned.
WalkSelected(repo, cv, os) ==
    IF cv.err # NoError
    THEN {[err |-> cv.err, versions |-> <<>>, emissions |-> <<>>]}
    ELSE {[versions |-> cv.versions] @@ w :
            w \in WalkFiles(repo, cv.versions, WalkOrder(SomeOrder(DOMAIN repo.files)),
                            os, <<>>)}

\* fetchImagesFromCharts(path, rancherVersion, osType, imagesSet), the index
\* entries being produced in the order given: the results it may have, each
\* the error, if any, the selected versions and the calls of addSourceToImage
\* made.
FetchImagesFromCharts(path, repo, target, os, order) ==
    WalkSelected(repo, GetChartVersions(path, repo, target, order), os)

----------------------------------------------------------------------------
(* System images *)

\* v32.ToolsSystemImages, converted by convert.ToObj.
ToolsSystemImages ==
    [pipelineSystemImages |->
        MapNode([jenkins |-> StrNode(<<"r", "/", "j", "e", "n", "k", "i", "n", "s">>),
                 alpineGit |-> StrNode(<<"r", "/", "g", "i", "t">>)]),
     authSystemImages |->
        MapNode([kubeAPIAuth |-> StrNode(<<"r", "/", "a", "u", "t", "h">>)])]

\* fetchImagesFromCollection(obj): the slices it may return. The range over
\* obj produces its fields in any order, each object in an order of its own.
RECURSIVE FetchImagesFromCollection(_)
RECURSIVE FetchImagesFromFields(_, _)
FetchImagesFromCollection(obj) ==
    UNION {FetchImagesFromFields(obj, keys) : keys \in Perms(DOMAIN obj)}

\* The loop of fetchImagesFromCollection, the fields being produced in the
\* order keys.
FetchImagesFromFields(obj, keys) ==
    IF keys = <<>> THEN {<<>>}
    ELSE {first \o rest :
            first \in (IF obj[Head(keys)].k = "str" THEN {<<obj[Head(keys)].s>>}
                       ELSE IF obj[Head(keys)].k = "map"
                       THEN FetchImagesFromCollection(obj[Head(keys)].m)
                       ELSE {<<>>}),
            rest \in FetchImagesFromFields(obj, Tail(keys))}

\* flatImagesFromCollections(cols...): the slices it may return when every
\* collection converts.
RECURSIVE FlatImagesFromCollections(_)
FlatImagesFromCollections(cols) ==
    IF cols = <<>> THEN {<<>>}
    ELSE {first \o rest : first \in FetchImagesFromCollection(Head(cols)),
                          rest \in FlatImagesFromCollections(Tail(cols))}

\* The collections as they would be if the tool images were appended for any OS.
CollectionsAnyOS(rke, os) == <<rke, ToolsSystemImages>>

\* fetchImagesFromSystem: the collections it flattens.
CollectionImagesList(rke, os) ==
    IF os = Linux THEN <<rke, ToolsSystemImages>> ELSE <<rke>>

\* fetchImagesFromSystem(rkeSystemImages, osType, imagesSet): the sequences of
\* calls of addSourceToImage it may make.
FetchImagesFromSystem(rke, os) ==
    {[i \in 1..Len(images) |-> <<images[i], SystemLabel>>] :
        images \in FlatImagesFromCollections(CollectionImagesList(rke, os))}

----------------------------------------------------------------------------
(* Inputs: repositories, collections and argument lists *)

MaxArgs == 1        \* longest caller-supplied image list
MaxVersions == 2    \* most versions of the bundle whose metadata is varied
MaxImages == 3      \* most image names of an accumulator drawn at large
MaxDepth == 2       \* deepest nesting of a configuration tree drawn at large
MaxElems == 2       \* longest sequence of such a tree

Absent == [k |-> "absent"]

\* A mapping with one entry, or none when the value is absent.
OptField(key, val) == IF val = Absent THEN EmptyMap ELSE key :> val

Slash(a, b) == a \o <<"/">> \o b

\* A version descriptor of the bundle index. Paths are relative to the
\* repository root.
ChartVersion(name, version, dir, localFiles) ==
    [Name |-> name, Version |-> version, Dir |-> dir, LocalFiles |-> localFiles]

File(tree) == [ok |-> TRUE, tree |-> tree]
BrokenFile == [ok |-> FALSE, tree |-> MapNode(EmptyMap)]

SystemChartsPath == <<"b", "u", "i", "l", "d", "/", "s", "y", "s", "t", "e", "m", "-",
                      "c", "h", "a", "r", "t", "s">>
ChartsPath == <<"b", "u", "i", "l", "d", "/", "c", "h", "a", "r", "t", "s">>

V263 == <<"2", ".", "6", ".", "3">>
V261 == <<"2", ".", "6", ".", "1">>
V260 == <<"2", ".", "6", ".", "0">>
V250 == <<"2", ".", "5", ".", "0">>
V270 == <<"2", ".", "7", ".", "0">>
V263rc == <<"2", ".", "6", ".", "3", "-", "r", "c", "1">>
V26 == <<"v", "2", ".", "6">>
VBad == <<"x">>

Mon == <<"m", "o", "n">>
Aux == <<"a", "u", "x">>
Fleet == <<"f", "l", "e", "e", "t">>
Agent == <<"a", "g", "e", "n", "t">>
One == <<"1">>
Two == <<"2">>
Tag10 == <<"1", ".", "0">>
RFoo == <<"r", "/", "f", "o", "o">>
ROld == <<"r", "/", "o", "l", "d">>
RAgent == <<"r", "/", "a", "g", "e", "n", "t">>
RFoo10 == <<"r", "/", "f", "o", "o", ":", "1", ".", "0">>
DioRFoo == <<"d", ".", "i", "o", "/", "r", "/", "f", "o", "o">>
DioRFoo10 == <<"d", ".", "i", "o", "/", "r", "/", "f", "o", "o", ":", "1", ".", "0">>
GioRFoo10 == <<"g", ".", "i", "o", "/", "r", "/", "f", "o", "o", ":", "1", ".", "0">>
Busybox12 == <<"b", "u", "s", "y", "b", "o", "x", ":", "1", ".", "2">>
WindowsLinuxStr == <<"w", "i", "n", "d", "o", "w", "s", ",", "l", "i", "n", "u", "x">>
LinuxWindowsStr == <<"l", "i", "n", "u", "x", ",", " ", "W", "i", "n", "d", "o", "w", "s">>

\* The os fields an image declaration is given.
OsFields == {Absent, StrNode(WindowsStr), StrNode(WindowsLinuxStr), StrNode(LinuxWindowsStr)}

\* An image declaration: a mapping with repository, tag and, unless absent, os.
Declaration(repository, tag, os) ==
    [repository |-> StrNode(repository), tag |-> tag] @@ OptField("os", os)

\* Where a values file holds its declaration.
Shapes == {"nested", "inSeq"}

\* A values file holding one declaration.
ValuesTree(shape, decl) ==
    IF shape = "root" THEN MapNode(decl)
    ELSE IF shape = "nested"
    THEN MapNode([replicas |-> IntNode(1), image |-> MapNode(decl)])
    ELSE MapNode([containers |-> SeqNode(<<MapNode([image |-> MapNode(decl)])>>)])

\* The system-charts repository: bundle mon with version 2 (min 2.6.1) and
\* version 1 (min 2.5.0, max 2.6.0), newest first, each with a values file.
SystemRepo(shape, os) ==
    LET dir2 == Slash(Mon, Two)
        dir1 == Slash(Mon, One)
        q2 == Slash(dir2, QuestionsYAML)
        q1 == Slash(dir1, QuestionsYML)
        v2 == Slash(dir2, ValuesYAML)
        v1 == Slash(dir1, ValuesYAML)
    IN [loadErr |-> FALSE,
        entries |-> (Mon :> <<ChartVersion(Mon, Two, dir2, <<q2, v2>>),
                              ChartVersion(Mon, One, dir1, <<q1, v1>>)>>),
        files |-> (q2 :> File(MapNode([rancher_min_version |-> StrNode(V261)])))
               @@ (q1 :> File(MapNode([rancher_min_version |-> StrNode(V250),
                                       rancher_max_version |-> StrNode(V260)])))
               @@ (v2 :> File(ValuesTree(shape, Declaration(RFoo, StrNode(Tag10), os))))
               @@ (v1 :> File(ValuesTree("nested", Declaration(ROld, IntNode(1), Absent))))]

\* A plain repository: bundle fleet, whose values file holds two declarations
\* side by side, and bundle agent unpacked below it.
NestedRepo ==
    LET dirF == Slash(Fleet, One)
        dirA == Slash(dirF, Agent)
        vF == Slash(dirF, ValuesYAML)
        vA == Slash(dirA, ValuesYAML)
    IN [loadErr |-> FALSE,
        entries |-> (Fleet :> <<ChartVersion(Fleet, One, dirF, <<vF>>)>>)
                 @@ (Agent :> <<ChartVersion(Agent, Two, dirA, <<vA>>)>>),
        files |-> (vF :> File(MapNode(
                             [image |-> MapNode(Declaration(DioRFoo, StrNode(Tag10), Absent)),
                              sidecar |-> MapNode(Declaration(ROld, IntNode(1), Absent))])))
               @@ (vA :> File(ValuesTree("root", Declaration(RAgent, StrNode(One), Absent))))]

\* A plain repository: bundle aux with two versions, the older one's values
\* file unreadable, and an entry without versions.
PlainRepo ==
    LET dir2 == Slash(Aux, Two)
        dir1 == Slash(Aux, One)
        v2 == Slash(dir2, ValuesYAML)
        v1 == Slash(dir1, ValuesYAML)
    IN [loadErr |-> FALSE,
        entries |-> (Aux :> <<ChartVersion(Aux, Two, dir2, <<v2>>),
                              ChartVersion(Aux, One, dir1, <<v1>>)>>)
                 @@ (Fleet :> <<>>),
        files |-> (v2 :> File(ValuesTree("nested",
                                 Declaration(RAgent, StrNode(One), StrNode(WindowsStr)))))
               @@ (v1 :> BrokenFile)]

\* A repository whose index cannot be loaded.
UnloadableRepo == [loadErr |-> TRUE, entries |-> EmptyMap, files |-> EmptyMap]

\* A repository whose selected version has an unreadable values file.
UnreadableRepo ==
    LET dir1 == Slash(Aux, One)
        v1 == Slash(dir1, ValuesYAML)
    IN [loadErr |-> FALSE,
        entries |-> (Aux :> <<ChartVersion(Aux, One, dir1, <<v1>>)>>),
        files |-> (v1 :> BrokenFile)]

FleetAgent == Fleet \o <<"-">> \o Agent

\* A repository of two bundles: fleet, whose values file declares an image, and
\* fleet-agent, whose values file is unreadable. The walk reaches directory
\* fleet before directory fleet-agent, though as strings
\* fleet-agent/1/values.yaml < fleet/1/values.yaml.
PartlyUnreadableRepo ==
    LET dirF == Slash(Fleet, One)
        dirA == Slash(FleetAgent, One)
        vF == Slash(dirF, ValuesYAML)
        vA == Slash(dirA, ValuesYAML)
    IN [loadErr |-> FALSE,
        entries |-> (Fleet :> <<ChartVersion(Fleet, One, dirF, <<vF>>)>>)
                 @@ (FleetAgent :> <<ChartVersion(FleetAgent, One, dirA, <<vA>>)>>),
        files |-> (vF :> File(ValuesTree("nested", Declaration(RAgent, StrNode(One), Absent))))
               @@ (vA :> BrokenFile)]

SystemRepos == {SystemRepo(shape, os) : shape \in Shapes, os \in OsFields}
ChartRepos == {NestedRepo, PlainRepo, UnloadableRepo, UnreadableRepo, PartlyUnreadableRepo}

\* A collection convert.ToObj fails on.
Unconvertible == [k |-> "unconvertible"]

\* rkeSystemImages as convert.ToObj renders it: version -> fields -> image.
RkeChoices ==
    {EmptyMap,
     "v1.21" :> MapNode([etcd |-> StrNode(<<"r", "/", "e", "t", "c", "d">>),
                         nginxProxy |-> StrNode(RFoo10)]),
     "v1.21" :> Unconvertible}

ArgImages == {Busybox12, GioRFoo10}

\* The sequences over S of length at most n.
SeqsUpTo(S, n) == UNION {[1..k -> S] : k \in 0..n}

TargetVersions == {V263, V250, VBad}

----------------------------------------------------------------------------
(* GetImages *)

NoPath == <<>>

\* What the paths given may hold: a repository for each path that is not empty.
ReposAt(sysPath, sysRepos, path, pathRepos) ==
    {s @@ c : s \in (IF sysPath = NoPath THEN {EmptyMap} ELSE {sysPath :> r : r \in sysRepos}),
              c \in (IF path = NoPath THEN {EmptyMap} ELSE {path :> r : r \in pathRepos})}

ErrSystemCharts == "failed to fetch images from system charts"
ErrCharts == "failed to fetch images from charts"
ErrSystem == "failed to fetch images from system images"

\* The history entries of one phase.
Emitted(phase, emissions) ==
    {[image |-> emissions[i][1], source |-> emissions[i][2], phase |-> phase] :
        i \in 1..Len(emissions)}

\* The arguments of a GetImages call, and what the repositories named hold.
Init ==
    /\ pc = "systemCharts"
    /\ osType \in {Linux, Windows}
    /\ rancherVersion \in TargetVersions
    /\ systemChartPath \in {NoPath, SystemChartsPath}
    /\ chartPath \in {NoPath, ChartsPath}
    /\ repos \in ReposAt(systemChartPath, SystemRepos, chartPath, ChartRepos)
    /\ k3sUpgradeImages \in SeqsUpTo(ArgImages, MaxArgs)
    /\ imagesFromArgs \in SeqsUpTo(ArgImages, MaxArgs)
    /\ rkeSystemImages \in RkeChoices
    /\ imagesSet = EmptyMap
    /\ toVisit = {}
    /\ mayVisit = {}
    /\ imagesList = <<>>
    /\ imagesAndSourcesList = <<>>
    /\ err = NoError
    /\ chartVersions = <<>>
    /\ emitted = {}
    /\ before = EmptyMap
    /\ root = NilNode
    /\ visits = <<>>

\* return nil, nil, errors.Wrap(err, stage)
Fail(stage) ==
    /\ pc' = "failed"
    /\ err' = stage
    /\ imagesList' = <<>>
    /\ imagesAndSourcesList' = <<>>

\* GetImages as it would be if it went on after a failed fetch.
AfterFetchGoOn(r, phase, next, stage) ==
    /\ imagesSet' = AddAll(imagesSet, r.emissions)
    /\ emitted' = emitted \cup Emitted(phase, r.emissions)
    /\ chartVersions' = r.versions
    /\ pc' = next
    /\ UNCHANGED outputs

\* A fetch with the result r, and what GetImages does with it: the fetch has
\* made its calls of addSourceToImage on imagesSet, those before an error
\* included; GetImages fails with the stage's error, or goes on.
AfterFetch(r, phase, next, stage) ==
    /\ imagesSet' = AddAll(imagesSet, r.emissions)
    /\ emitted' = emitted \cup Emitted(phase, r.emissions)
    /\ chartVersions' = r.versions
    /\ IF r.err # NoError THEN Fail(stage)
       ELSE /\ pc' = next
            /\ UNCHANGED outputs

\* GetImages, lines 220-224: images of the system charts.
FetchSystemCharts ==
    /\ pc = "systemCharts"
    /\ IF systemChartPath # NoPath
       THEN \E order \in Perms(DOMAIN repos[systemChartPath].entries) :
               \E r \in FetchImagesFromCharts(systemChartPath, repos[systemChartPath],
                                              rancherVersion, osType, order) :
                   AfterFetch(r, "systemCharts", "charts", ErrSystemCharts)
       ELSE /\ pc' = "charts"
            /\ UNCHANGED <<imagesSet, emitted, chartVersions, outputs>>
    /\ UNCHANGED <<inputs, walk, toVisit, mayVisit, before>>

\* GetImages, lines 227-231: images of the charts.
FetchCharts ==
    /\ pc = "charts"
    /\ IF chartPath # NoPath
       THEN \E order \in Perms(DOMAIN repos[chartPath].entries) :
               \E r \in FetchImagesFromCharts(chartPath, repos[chartPath],
                                              rancherVersion, osType, order) :
                   AfterFetch(r, "charts", "system", ErrCharts)
       ELSE /\ pc' = "system"
            /\ UNCHANGED <<imagesSet, emitted, chartVersions, outputs>>
    /\ UNCHANGED <<inputs, walk, toVisit, mayVisit, before>>

\* flatImagesFromCollections, lines 319-322: convert.ToObj renders the collection.
Convertible(rke) == \A v \in DOMAIN rke : rke[v].k # "unconvertible"

\* The results the call of fetchImagesFromSystem may have when the collections
\* hold anything: the error of the conversion, or the calls of addSourceToImage.
SystemResult(rke, os, given) ==
    IF ~given THEN {[err |-> NoError, versions |-> chartVersions, emissions |-> <<>>]}
    ELSE IF ~Convertible(rke)
    THEN {[err |-> "convert", versions |-> chartVersions, emissions |-> <<>>]}
    ELSE {[err |-> NoError, versions |-> chartVersions, emissions |-> e] :
            e \in FetchImagesFromSystem(rke, os)}

\* GetImages, lines 234-238: the results the step of the system images may have.
SystemEmissions(rke, os) == SystemResult(rke, os, Cardinality(DOMAIN rke) > 0)

\* GetImages, lines 234-238: the system images.
FetchSystem ==
    /\ pc = "system"
    /\ \E r \in SystemEmissions(rkeSystemImages, osType) :
          AfterFetch(r, "system", "requirement", ErrSystem)
    /\ UNCHANGED <<inputs, walk, toVisit, mayVisit, before>>

\* GetImages, line 240: setRequirementImages(osType, imagesSet)
SetRequirement ==
    /\ pc = "requirement"
    /\ imagesSet' = SetRequirementImages(osType, imagesSet)
    /\ emitted' = emitted \cup
           {[image |-> i, source |-> CoreLabel, phase |-> "requirement"] :
               i \in DOMAIN SetRequirementImages(osType, EmptyMap)}
    /\ pc' = "rancher"
    /\ UNCHANGED <<inputs, walk, toVisit, mayVisit, outputs, chartVersions, before>>

\* GetImages, line 243: setImages("rancher", imagesFromArgs, imagesSet)
SetRancherImages ==
    /\ pc = "rancher"
    /\ imagesSet' = SetImages(RancherLabel, imagesFromArgs, imagesSet)
    /\ emitted' = emitted \cup
           {[image |-> i, source |-> RancherLabel, phase |-> "rancher"] :
               i \in DOMAIN SetImages(RancherLabel, imagesFromArgs, EmptyMap)}
    /\ pc' = "k3sUpgrade"
    /\ UNCHANGED <<inputs, walk, toVisit, mayVisit, outputs, chartVersions, before>>

\* GetImages, line 246: setImages("k3sUpgrade", k3sUpgradeImages, imagesSet)
SetK3sUpgradeImages ==
    /\ pc = "k3sUpgrade"
    /\ imagesSet' = SetImages(K3sUpgradeLabel, k3sUpgradeImages, imagesSet)
    /\ emitted' = emitted \cup
           {[image |-> i, source |-> K3sUpgradeLabel, phase |-> "k3sUpgrade"] :
               i \in DOMAIN SetImages(K3sUpgradeLabel, k3sUpgradeImages, EmptyMap)}
    /\ pc' = "convert"
    /\ UNCHANGED <<inputs, walk, toVisit, mayVisit, outputs, chartVersions, before>>

\* The iterations of the range loop of convertMirroredImages that are followed:
\* all of them, or only those on keys Mirror rewrites (the others `continue`
\* and leave the map as it is, wherever they fall in the order).
Followed(keys, all) == IF all THEN keys ELSE {k \in keys : Mirror(k) # k}

\* convertMirroredImages: the range loop starts; every key now in the map is
\* produced unless it is deleted before its turn.
ConvertBegin(at, next, all) ==
    /\ pc = at
    /\ pc' = next
    /\ toVisit' = Followed(DOMAIN imagesSet, all)
    /\ mayVisit' = {}
    /\ before' = imagesSet
    /\ UNCHANGED <<inputs, walk, imagesSet, outputs, chartVersions, emitted>>

\* convertMirroredImages: one iteration of the range loop. The loop produces a
\* key it still owes, or a key created during the loop (which it may as well
\* never produce).
ConvertVisit(at, all) ==
    /\ pc = at
    /\ \E image \in toVisit \cup mayVisit :
          /\ imagesSet' = ConvertImage(imagesSet, image)
          /\ toVisit' = (toVisit \ {image}) \cap DOMAIN imagesSet'
          /\ mayVisit' = ((mayVisit \ {image}) \cap DOMAIN imagesSet')
                            \cup Followed(DOMAIN imagesSet' \ DOMAIN imagesSet, all)
    /\ UNCHANGED <<pc, inputs, walk, outputs, chartVersions, emitted, before>>

\* The end of the range loop as it would be if the loop could stop with keys owed.
ConvertEndEarly(at, next) ==
    /\ pc = at
    /\ pc' = next
    /\ mayVisit' = {}
    /\ UNCHANGED <<inputs, walk, imagesSet, toVisit, outputs, chartVersions, emitted, before>>

\* convertMirroredImages: the range loop ends once no key is owed.
ConvertEnd(at, next) ==
    /\ pc = at
    /\ toVisit = {}
    /\ pc' = next
    /\ mayVisit' = {}
    /\ UNCHANGED <<inputs, walk, imagesSet, toVisit, outputs, chartVersions, emitted, before>>

\* GetImages returns the lists.
Return(lists) ==
    /\ imagesList' = lists[1]
    /\ imagesAndSourcesList' = lists[2]
    /\ pc' = "done"

\* The orders followed in which a range loop may produce keys: all of them, or
\* one and its reverse.
KeyOrders(keys, all) ==
    IF all THEN Perms(keys) ELSE {SomeOrder(keys), Reverse(SomeOrder(keys))}

\* GetImages, lines 250-252: the lists are generated and returned.
GenerateLists(all) ==
    /\ pc = "lists"
    /\ \E order \in KeyOrders(DOMAIN imagesSet, all) :
          Return(GenerateImageAndSourceLists(imagesSet, order))
    /\ UNCHANGED <<inputs, walk, imagesSet, toVisit, mayVisit, err, chartVersions, emitted, before>>

Next ==
    \/ FetchSystemCharts
    \/ FetchCharts
    \/ FetchSystem
    \/ SetRequirement
    \/ SetRancherImages
    \/ SetK3sUpgradeImages
    \/ ConvertBegin("convert", "converting", FALSE)
    \/ ConvertVisit("converting", FALSE)
    \/ ConvertEnd("converting", "lists")
    \/ GenerateLists(FALSE)

Spec == Init /\ [][Next]_vars

----------------------------------------------------------------------------
(* getChartVersions on its own *)

\* What the questions file of a version may declare.
QuestionsUpperYML == <<"Q", "u", "e", "s", "t", "i", "o", "n", "s", ".", "Y", "M", "L">>

\* A version's metadata: no questions file, an unreadable one, or one that
\* declares min and max (each possibly absent).
MetaChoices ==
    {[file |-> "none", min |-> Absent, max |-> Absent],
     [file |-> "broken", min |-> Absent, max |-> Absent],
     [file |-> "YML", min |-> StrNode(V261), max |-> Absent],
     [file |-> "yaml", min |-> Absent, max |-> Absent],
     [file |-> "yaml", min |-> Absent, max |-> StrNode(V263)],
     [file |-> "yaml", min |-> IntNode(2), max |-> Absent],
     [file |-> "yaml", min |-> StrNode(VBad), max |-> Absent]}
    \cup {[file |-> "yaml", min |-> StrNode(mn), max |-> mx] :
             mn \in {V250, V261, V263}, mx \in {Absent, StrNode(V260), StrNode(V263)}}

MetaFileName(meta) == IF meta.file = "YML" THEN QuestionsUpperYML ELSE QuestionsYAML

MetaFile(meta) ==
    IF meta.file = "broken" THEN BrokenFile
    ELSE File(MapNode(OptField("rancher_min_version", meta.min)
                      @@ OptField("rancher_max_version", meta.max)))

\* Version i (1 is the newest) of bundle mon, with metadata meta, of n versions.
MetaVersion(metas, i) ==
    LET dir == Slash(Mon, FormatInt(Len(metas) + 1 - i))
    IN ChartVersion(Mon, FormatInt(Len(metas) + 1 - i), dir,
                    IF metas[i].file = "none" THEN <<Slash(dir, <<"x">>)>>
                    ELSE <<Slash(dir, <<"x">>), Slash(dir, MetaFileName(metas[i]))>>)

\* A repository: bundle mon with the metadata given, newest first, bundle aux
\* with one version without metadata, and an entry without versions.
MetaRepo(metas) ==
    [loadErr |-> FALSE,
     entries |-> (Mon :> [i \in 1..Len(metas) |-> MetaVersion(metas, i)])
              @@ (Aux :> <<ChartVersion(Aux, One, Slash(Aux, One), <<>>)>>)
              @@ (Fleet :> <<>>),
     files |-> [p \in {Slash(Slash(Mon, FormatInt(Len(metas) + 1 - i)), MetaFileName(metas[i])) :
                          i \in {j \in 1..Len(metas) : metas[j].file # "none"}} |->
                   MetaFile(metas[CHOOSE i \in 1..Len(metas) :
                       p = Slash(Slash(Mon, FormatInt(Len(metas) + 1 - i)), MetaFileName(metas[i]))])]
              @@ [p \in {Slash(Slash(Mon, FormatInt(i)), <<"x">>) : i \in 1..Len(metas)} |->
                     File(MapNode(EmptyMap))]]

MetaRepos == {MetaRepo(metas) : metas \in UNION {[1..n -> MetaChoices] : n \in 1..MaxVersions}}

SelTargets == {V263, V263rc, VBad}

\* The state of the variables of GetImages while an operation is run on its own.
NoRun ==
    /\ k3sUpgradeImages = <<>>
    /\ imagesFromArgs = <<>>
    /\ toVisit = {}
    /\ mayVisit = {}
    /\ imagesList = <<>>
    /\ imagesAndSourcesList = <<>>
    /\ err = NoError
    /\ chartVersions = <<>>
    /\ emitted = {}
    /\ before = EmptyMap
    /\ root = NilNode
    /\ visits = <<>>

InitSel ==
    /\ pc = "select"
    /\ osType = Linux
    /\ rancherVersion \in SelTargets
    /\ systemChartPath \in {SystemChartsPath, ChartsPath}
    /\ repos \in {systemChartPath :> r : r \in MetaRepos}
    /\ imagesSet = EmptyMap
    /\ chartPath = NoPath
    /\ rkeSystemImages = EmptyMap
    /\ NoRun

\* What getChartVersions returns.
Selected(r) ==
    /\ err' = r.err
    /\ chartVersions' = r.versions
    /\ pc' = "selected"

\* getChartVersions(systemChartPath, rancherVersion)
Select ==
    /\ pc = "select"
    /\ \E order \in Perms(DOMAIN repos[systemChartPath].entries) :
          Selected(GetChartVersions(systemChartPath, repos[systemChartPath],
                                    rancherVersion, order))
    /\ UNCHANGED <<inputs, walk, imagesSet, toVisit, mayVisit, imagesList, imagesAndSourcesList,
                   emitted, before>>

NextSel == Select

SpecSel == InitSel /\ [][NextSel]_vars

----------------------------------------------------------------------------
(* convertMirroredImages on its own, run twice in succession *)

A10 == <<"a", ":", "1", "0">>
A2 == <<"a", ":", "2">>

\* The maps from some of the labels to a boolean.
SourceMaps(labels) == UNION {[ls -> BOOLEAN] : ls \in SUBSET labels}

\* The accumulators over at most MaxImages of the keys.
Accumulators(keys, labels) ==
    UNION {[ks -> SourceMaps(labels)] : ks \in {x \in SUBSET keys : Cardinality(x) <= MaxImages}}

MirrorKeys == {RFoo10, DioRFoo10, GioRFoo10, Busybox12}

InitMirror ==
    /\ pc = "first"
    /\ osType = Linux
    /\ rancherVersion = V263
    /\ systemChartPath = NoPath
    /\ chartPath = NoPath
    /\ repos = EmptyMap
    /\ rkeSystemImages = EmptyMap
    /\ imagesSet \in Accumulators(MirrorKeys, {CoreLabel, SystemLabel})
    /\ NoRun

NextMirror ==
    \/ ConvertBegin("first", "firstLoop", TRUE)
    \/ ConvertVisit("firstLoop", TRUE)
    \/ ConvertEnd("firstLoop", "once")
    \/ ConvertBegin("once", "secondLoop", TRUE)
    \/ ConvertVisit("secondLoop", TRUE)
    \/ ConvertEnd("secondLoop", "twice")

SpecMirror == InitMirror /\ [][NextMirror]_vars

----------------------------------------------------------------------------
(* generateImageAndSourceLists on its own *)

ListKeys == {RFoo, RFoo10, Busybox, <<"R">>}

InitLists ==
    /\ pc = "lists"
    /\ osType = Linux
    /\ rancherVersion = V263
    /\ systemChartPath = NoPath
    /\ chartPath = NoPath
    /\ repos = EmptyMap
    /\ rkeSystemImages = EmptyMap
    /\ imagesSet \in Accumulators(ListKeys, {A10, A2})
    /\ NoRun

NextLists == GenerateLists(TRUE)

SpecLists == InitLists /\ [][NextLists]_vars

----------------------------------------------------------------------------
(* fetchImagesFromSystem on its own, from an empty accumulator *)

REtcd == <<"r", "/", "e", "t", "c", "d">>
RJenkins == <<"r", "/", "j", "e", "n", "k", "i", "n", "s">>

\* What a field of a system-image record may hold.
FieldChoices ==
    {Absent, StrNode(REtcd), StrNode(RJenkins), IntNode(1), SeqNode(<<StrNode(RAgent)>>),
     MapNode("inner" :> StrNode(RFoo10)), MapNode(EmptyMap)}

\* The records of one version.
SystemImageRecords ==
    {MapNode(OptField("etcd", a) @@ OptField("nginxProxy", b)) :
        a \in FieldChoices, b \in FieldChoices}

\* The collections of at most two versions.
SystemCollections ==
    UNION {[vs -> SystemImageRecords] : vs \in SUBSET {"v1.20", "v1.21"}}

InitSystem ==
    /\ pc = "system"
    /\ osType \in {Linux, Windows}
    /\ rancherVersion = V263
    /\ systemChartPath = NoPath
    /\ chartPath = NoPath
    /\ repos = EmptyMap
    /\ rkeSystemImages \in SystemCollections
    /\ imagesSet = EmptyMap
    /\ NoRun

\* fetchImagesFromSystem(rkeSystemImages, osType, imagesSet)
FetchSystemImages ==
    /\ pc = "system"
    /\ \E emissions \in FetchImagesFromSystem(rkeSystemImages, osType) :
          imagesSet' = AddAll(imagesSet, emissions)
    /\ pc' = "fetched"
    /\ UNCHANGED <<inputs, walk, toVisit, mayVisit, outputs, chartVersions, emitted, before>>

NextSystem == FetchSystemImages

SpecSystem == InitSystem /\ [][NextSystem]_vars

----------------------------------------------------------------------------
(* The tree walks on their own *)

WalkKeys == {"a", "b"}

\* The trees one level deeper than those of sub: mappings and sequences of them.
Grow(sub) ==
    sub \cup {MapNode(f) : f \in UNION {[ks -> sub] : ks \in SUBSET WalkKeys \ {{}}}}
        \cup {SeqNode(e) : e \in UNION {[1..n -> sub] : n \in 0..MaxElems}}

\* The configuration trees nested at most d deep.
RECURSIVE TreesOfDepth(_)
TreesOfDepth(d) ==
    IF d = 0 THEN {StrNode(<<"x">>), NilNode, MapNode(EmptyMap)}
    ELSE Grow(TreesOfDepth(d - 1))

InitWalk ==
    /\ pc = "walk"
    /\ osType = Linux
    /\ rancherVersion = V263
    /\ systemChartPath = NoPath
    /\ chartPath = NoPath
    /\ repos = EmptyMap
    /\ rkeSystemImages = EmptyMap
    /\ imagesSet = EmptyMap
    /\ k3sUpgradeImages = <<>>
    /\ imagesFromArgs = <<>>
    /\ toVisit = {}
    /\ mayVisit = {}
    /\ imagesList = <<>>
    /\ imagesAndSourcesList = <<>>
    /\ err = NoError
    /\ chartVersions = <<>>
    /\ emitted = {}
    /\ before = EmptyMap
    /\ root \in TreesOfDepth(MaxDepth)
    /\ visits = <<>>

\* walkthroughMap(root, walkFunc), walkFunc recording the mapping it is handed
WalkThrough ==
    /\ pc = "walk"
    /\ root.k = "map"
    /\ visits' \in WalkthroughMap(root.m)
    /\ pc' = "walkedThrough"
    /\ UNCHANGED <<inputs, root, imagesSet, toVisit, mayVisit, outputs, chartVersions, emitted,
                   before>>

\* walkMap(root, walkFunc), walkFunc recording the mapping it is handed
WalkAll ==
    /\ pc = "walk"
    /\ visits' \in WalkMap(root)
    /\ pc' = "walkedMap"
    /\ UNCHANGED <<inputs, root, imagesSet, toVisit, mayVisit, outputs, chartVersions, emitted,
                   before>>

NextWalk ==
    \/ WalkThrough
    \/ WalkAll

SpecWalk == InitWalk /\ [][NextWalk]_vars

----------------------------------------------------------------------------
(* Properties *)

\* seq is strictly ascending in byte order.
Ascending(seq) == \A i \in 1..(Len(seq) - 1) : StrLess(seq[i], seq[i + 1])

\* line is image, one space, and the labels given, ascending and comma-joined.
IsLineOf(line, image, labels) ==
    \E sorted \in Perms(labels) :
        /\ Ascending(sorted)
        /\ line = image \o <<" ">> \o Join(sorted, <<",">>)

\* The output lists image with label among the sources of its line.
ListedWith(image, label) ==
    \E i \in DOMAIN imagesList :
        /\ imagesList[i] = image
        /\ HasPrefix(imagesAndSourcesList[i], image \o <<" ">>)
        /\ label \in Range(Split(SubSeq(imagesAndSourcesList[i], Len(image) + 2,
                                        Len(imagesAndSourcesList[i])), ","))

\* The versions getChartVersions selects in the repository at path.
SelectedAt(path) ==
    GetChartVersions(path, repos[path], rancherVersion,
                     SomeOrder(DOMAIN repos[path].entries)).versions

\* The values files of the repository at path that belong to a selected version.
SelectedValuesFiles(path) ==
    {f \in DOMAIN repos[path].files :
        /\ Base(f) = ValuesYAML
        /\ repos[path].files[f].ok
        /\ \E i \in DOMAIN SelectedAt(path) : HasPrefix(f, SelectedAt(path)[i].Dir)}

IsDeclaration(m) ==
    /\ "repository" \in DOMAIN m
    /\ m["repository"].k = "str"
    /\ "tag" \in DOMAIN m

\* The image declarations of the selected values files that lie below
\* mappings only: (path, file, mapping).
Declarations ==
    UNION {UNION {{<<path, f, m>> : m \in {x \in UNION {Range(w) : w \in WalkthroughMap(repos[path].files[f].tree.m)} :
                                              IsDeclaration(x)}} :
                     f \in SelectedValuesFiles(path)} :
              path \in DOMAIN repos}

DeclaredImage(d) == ImageName(d[3]["repository"].s, d[3]["tag"])

\* The images the other phases may contribute, for either target OS.
OtherPhaseImages ==
    UNION {Range(images) :
              images \in FlatImagesFromCollections(<<rkeSystemImages, ToolsSystemImages>>)}
        \cup {ShellImage, Busybox} \cup Range(imagesFromArgs) \cup Range(k3sUpgradeImages)

\* No other declaration and no other phase contributes the image d declares.
SoleContributor(d) ==
    /\ Mirror(DeclaredImage(d)) = DeclaredImage(d)
    /\ \A e \in Declarations : e # d => Mirror(DeclaredImage(e)) # DeclaredImage(d)
    /\ \A i \in OtherPhaseImages : Mirror(i) # DeclaredImage(d)

OsIs(d, os) == "os" \in DOMAIN d[3] /\ d[3]["os"].k = "str" /\ d[3]["os"].s = os

\* C1: an image declared in a selected values file and contributed by nothing
\* else is absent from the Linux output when declared with os "windows",
\* absent from the Windows output when declared without os, and present in the
\* output for either OS when declared with os "windows,linux".
C1_OsPartition ==
    pc = "done" =>
        \A d \in Declarations :
            SoleContributor(d) =>
                /\ (OsIs(d, WindowsStr) /\ osType = Linux
                        => DeclaredImage(d) \notin Range(imagesList))
                /\ ("os" \notin DOMAIN d[3] /\ osType = Windows
                        => DeclaredImage(d) \notin Range(imagesList))
                /\ (OsIs(d, WindowsLinuxStr) => DeclaredImage(d) \in Range(imagesList))

\* The rewrite rule is idempotent on keys.
IdempotentOn(keys) == \A k \in keys : Mirror(Mirror(k)) = Mirror(k)

\* C2: after convertMirroredImages no key is left that the rule rewrites, and
\* the true (image, source) pairs are exactly the pairs (Mirror(image), source)
\* of the pairs that were true before.
C2_Normalized ==
    pc = "once" /\ IdempotentOn(DOMAIN before) =>
        /\ \A k \in DOMAIN imagesSet : Mirror(k) = k
        /\ UNION {{<<i, s>> : s \in {x \in DOMAIN imagesSet[i] : imagesSet[i][x]}} :
                     i \in DOMAIN imagesSet}
             = UNION {{<<Mirror(i), s>> : s \in {x \in DOMAIN before[i] : before[i][x]}} :
                         i \in DOMAIN before}

\* Two names collapse onto a third that was a key already, all with true sources.
C2_Witness ==
    /\ pc = "once"
    /\ {RFoo10, DioRFoo10, GioRFoo10} \subseteq DOMAIN before
    /\ \A k \in {RFoo10, DioRFoo10, GioRFoo10} : \E s \in DOMAIN before[k] : before[k][s]
    /\ before[DioRFoo10] # before[GioRFoo10]
    /\ DOMAIN imagesSet = {RFoo10}

\* The labels the phases emitted for the images the rule rewrites to image.
LabelsEmitted(image) == {e.source : e \in {x \in emitted : Mirror(x.image) = image}}

\* C3: in the output of GetImages every image emitted by a phase is listed
\* under its rewritten name, and the line of an image lists exactly the labels
\* that the phases emitted for it, each once, ascending and comma-joined.
C3_SourceUnion ==
    pc = "done" =>
        /\ \A e \in emitted : Mirror(e.image) \in Range(imagesList)
        /\ \A i \in DOMAIN imagesList :
              IsLineOf(imagesAndSourcesList[i], imagesList[i], LabelsEmitted(imagesList[i]))

\* An image emitted by three phases with three labels.
C3_Witness ==
    /\ pc = "done"
    /\ \E a \in emitted, b \in emitted, c \in emitted :
          /\ Mirror(a.image) = Mirror(b.image)
          /\ Mirror(b.image) = Mirror(c.image)
          /\ a.phase = "systemCharts" /\ b.phase = "system" /\ c.phase = "rancher"
          /\ a.source # b.source /\ b.source # c.source /\ a.source # c.source

\* convertMirroredImages with the keys produced in the order given.
RECURSIVE ConvertInOrder(_, _)
ConvertInOrder(set, keys) ==
    IF keys = <<>> THEN set
    ELSE ConvertInOrder(IF Head(keys) \in DOMAIN set THEN ConvertImage(set, Head(keys)) ELSE set,
                        Tail(keys))

\* The calls of addSourceToImage for the repository at path in one run: the
\* index entries produced in ascending order, the mappings of the values
\* files ranged over in one order.
EmissionsInOrder(path) ==
    IF path = NoPath THEN <<>>
    ELSE (CHOOSE r \in FetchImagesFromCharts(path, repos[path], rancherVersion, osType,
                          SortStrings(SomeOrder(DOMAIN repos[path].entries))) : TRUE).emissions

\* The calls of addSourceToImage for the system images in one run.
SystemEmissionsInOrder ==
    (CHOOSE r \in SystemEmissions(rkeSystemImages, osType) : TRUE).emissions

\* The accumulator of GetImages before normalization in that one run.
AccumulatedInOrder ==
    SetImages(K3sUpgradeLabel, k3sUpgradeImages,
        SetImages(RancherLabel, imagesFromArgs,
            SetRequirementImages(osType,
                AddAll(EmptyMap, EmissionsInOrder(systemChartPath)
                                    \o EmissionsInOrder(chartPath)
                                    \o SystemEmissionsInOrder))))

NormalizedInOrder(set) == ConvertInOrder(set, SortStrings(SomeOrder(DOMAIN set)))

ListsInOrder(set) == GenerateImageAndSourceLists(set, SortStrings(SomeOrder(DOMAIN set)))

\* C4: the lists GetImages returns are those of one reference run, which ranges
\* over the index entries and the accumulator keys in ascending order,
\* whatever the orders this run followed.
C4_Deterministic ==
    pc = "done" =>
        <<imagesList, imagesAndSourcesList>> = ListsInOrder(NormalizedInOrder(AccumulatedInOrder))

\* The versions of the semantic-version strings the inputs use: major, minor,
\* patch, and 0 for a pre-release, 1 for a release.
VersionKey(s) ==
    CASE s = V250 -> <<2, 5, 0, 1>>
      [] s = V260 -> <<2, 6, 0, 1>>
      [] s = V261 -> <<2, 6, 1, 1>>
      [] s = V263rc -> <<2, 6, 3, 0>>
      [] s = V263 -> <<2, 6, 3, 1>>
      [] s = V270 -> <<2, 7, 0, 1>>
      [] OTHER -> <<>>

\* a precedes or equals b.
KeyLE(a, b) ==
    /\ a # <<>>
    /\ b # <<>>
    /\ \/ a = b
       \/ \E i \in 1..4 : a[i] < b[i] /\ \A j \in 1..(i - 1) : a[j] = b[j]

\* What the questions file of version v declares under key: a string, or
\* nothing.
Declared(repo, v, key) ==
    {repo.files[f].tree.m[key].s :
        f \in {x \in Range(v.LocalFiles) :
                  /\ ToLower(Base(x)) \in {QuestionsYAML, QuestionsYML}
                  /\ repo.files[x].ok
                  /\ key \in DOMAIN repo.files[x].tree.m
                  /\ repo.files[x].tree.m[key].k = "str"}}

\* Version v declares a minimum the target reaches and no maximum it exceeds.
InRange(repo, v, target) ==
    /\ \E mn \in Declared(repo, v, "rancher_min_version") : KeyLE(VersionKey(mn), VersionKey(target))
    /\ \A mx \in Declared(repo, v, "rancher_max_version") : KeyLE(VersionKey(target), VersionKey(mx))

\* The versions of bundle name among those selected.
SelectedOf(name) == SelectSeq(chartVersions, LAMBDA v : v.Name = name)

TheRepo == repos[systemChartPath]

\* C5: in a ranged repository a bundle none of whose versions is in range has
\* exactly its newest version selected, and whenever the selector succeeds
\* every bundle with a version has at least one selected.
C5_Fallback ==
    pc = "selected" /\ err = NoError =>
        \A b \in DOMAIN TheRepo.entries :
            Len(TheRepo.entries[b]) > 0 =>
                /\ Len(SelectedOf(b)) >= 1
                /\ (/\ systemChartPath = SystemChartsPath
                    /\ \A i \in DOMAIN TheRepo.entries[b] :
                           ~InRange(TheRepo, TheRepo.entries[b][i], rancherVersion))
                      => SelectedOf(b) = <<TheRepo.entries[b][1]>>

\* Two versions that declare ranges, the target in neither.
C5_Witness ==
    /\ pc = "selected"
    /\ err = NoError
    /\ systemChartPath = SystemChartsPath
    /\ Len(TheRepo.entries[Mon]) = 2
    /\ \A i \in 1..2 :
          /\ Declared(TheRepo, TheRepo.entries[Mon][i], "rancher_min_version") # {}
          /\ ~InRange(TheRepo, TheRepo.entries[Mon][i], rancherVersion)
    /\ SelectedOf(Mon) = <<TheRepo.entries[Mon][1]>>

\* C6: in a ranged repository a bundle with a version in range has exactly
\* its versions in range selected, newest first; in a plain repository every
\* bundle has exactly its newest version selected and the selector succeeds.
C6_Selection ==
    pc = "selected" =>
        \A b \in DOMAIN TheRepo.entries :
            /\ (/\ systemChartPath = SystemChartsPath
                /\ err = NoError
                /\ \E i \in DOMAIN TheRepo.entries[b] :
                       InRange(TheRepo, TheRepo.entries[b][i], rancherVersion))
                  => SelectedOf(b) = SelectSeq(TheRepo.entries[b],
                                               LAMBDA v : InRange(TheRepo, v, rancherVersion))
            /\ systemChartPath = ChartsPath
                  => /\ err = NoError
                     /\ SelectedOf(b) = IF TheRepo.entries[b] = <<>> THEN <<>>
                                        ELSE <<TheRepo.entries[b][1]>>

\* Target 2.6.3, version 2 with minimum 2.6.1 and version 1 with range
\* 2.5.0 to 2.6.0: only version 2 is selected.
C6_Witness ==
    /\ pc = "selected"
    /\ err = NoError
    /\ systemChartPath = SystemChartsPath
    /\ rancherVersion = V263
    /\ TheRepo = MetaRepo(<<[file |-> "yaml", min |-> StrNode(V261), max |-> Absent],
                            [file |-> "yaml", min |-> StrNode(V250), max |-> StrNode(V260)]>>)
    /\ SelectedOf(Mon) = <<TheRepo.entries[Mon][1]>>

\* C7: a second run of convertMirroredImages leaves the accumulator as the
\* first run left it.
C7_Idempotent ==
    pc = "twice" /\ IdempotentOn(MirrorKeys) => imagesSet = before

\* The first run rewrote keys, to a name that was no key before.
C7_Witness ==
    /\ pc = "twice"
    /\ DOMAIN imagesSet = {RFoo10, Busybox12}
    /\ imagesSet[RFoo10] = (CoreLabel :> TRUE) @@ (SystemLabel :> TRUE)
    /\ imagesSet = before

\* C8 as stated: for either OS the output lists every image of the upgrade
\* list with label k3sUpgrade and every image of the operator's list with label
\* rancher; label core is listed on Linux only.
C8_CallerImagesListed ==
    pc = "done" =>
        /\ \A i \in Range(k3sUpgradeImages) : ListedWith(i, K3sUpgradeLabel)
        /\ \A i \in Range(imagesFromArgs) : ListedWith(i, RancherLabel)
        /\ osType = Linux => ListedWith(Mirror(ShellImage), CoreLabel)
                             /\ ListedWith(Mirror(Busybox), CoreLabel)
        /\ osType = Windows => \A i \in Range(imagesList) : ~ListedWith(i, CoreLabel)

\* C8 amended: for either OS the output lists the rewritten name of every
\* image of the upgrade list with label k3sUpgrade and the rewritten name of
\* every image of the operator's list with label rancher; label core is listed
\* on Linux only.
C8_CallerImagesListedRewritten ==
    pc = "done" =>
        /\ \A i \in Range(k3sUpgradeImages) : ListedWith(Mirror(i), K3sUpgradeLabel)
        /\ \A i \in Range(imagesFromArgs) : ListedWith(Mirror(i), RancherLabel)
        /\ osType = Linux => ListedWith(Mirror(ShellImage), CoreLabel)
                             /\ ListedWith(Mirror(Busybox), CoreLabel)
        /\ osType = Windows => \A i \in Range(imagesList) : ~ListedWith(i, CoreLabel)

\* A Windows run with an upgrade image the rule rewrites and an operator's image.
C8_Witness ==
    /\ pc = "done"
    /\ osType = Windows
    /\ k3sUpgradeImages = <<GioRFoo10>>
    /\ imagesFromArgs = <<Busybox12>>
    /\ ListedWith(RFoo10, K3sUpgradeLabel)
    /\ ListedWith(Busybox12, RancherLabel)

\* The strings found in a value by following fields through nested records,
\* at most three deep.
LeavesOf(node) ==
    LET at1(n) == IF n.k = "str" THEN {n.s} ELSE {}
        at2(n) == IF n.k = "map" THEN UNION {at1(n.m[f]) : f \in DOMAIN n.m} ELSE at1(n)
    IN IF node.k = "map" THEN UNION {at2(node.m[f]) : f \in DOMAIN node.m} ELSE at1(node)

ToolImages == {<<"r", "/", "j", "e", "n", "k", "i", "n", "s">>, <<"r", "/", "g", "i", "t">>,
               <<"r", "/", "a", "u", "t", "h">>}

\* C9: from an empty accumulator fetchImagesFromSystem leaves exactly the
\* string leaves of the collections given, and on Linux those of the tool
\* images, each with the one source system.
C9_SystemImages ==
    pc = "fetched" =>
        /\ DOMAIN imagesSet =
              UNION {LeavesOf(rkeSystemImages[v]) : v \in DOMAIN rkeSystemImages}
                 \cup (IF osType = Linux THEN ToolImages ELSE {})
        /\ \A i \in DOMAIN imagesSet : imagesSet[i] = (SystemLabel :> TRUE)

\* A Windows run over two versions with a nested record, a sequence and a number.
C9_Witness ==
    /\ pc = "fetched"
    /\ osType = Windows
    /\ Cardinality(DOMAIN rkeSystemImages) = 2
    /\ \E v \in DOMAIN rkeSystemImages :
          /\ rkeSystemImages[v].m = [etcd |-> MapNode("inner" :> StrNode(RFoo10)),
                                     nginxProxy |-> SeqNode(<<StrNode(RAgent)>>)]
    /\ \E v \in DOMAIN rkeSystemImages :
          /\ rkeSystemImages[v].m = [etcd |-> StrNode(REtcd), nginxProxy |-> IntNode(1)]
    /\ DOMAIN imagesSet = {RFoo10, REtcd}

\* C10: generateImageAndSourceLists returns the keys of the accumulator, each
\* once and ascending, and for each, at the same place, the key, a space and
\* its true labels, ascending and comma-joined.
C10_Lists ==
    pc = "done" =>
        /\ Ascending(imagesList)
        /\ Range(imagesList) = DOMAIN imagesSet
        /\ Len(imagesAndSourcesList) = Len(imagesList)
        /\ \A i \in DOMAIN imagesList :
              IsLineOf(imagesAndSourcesList[i], imagesList[i],
                       {s \in DOMAIN imagesSet[imagesList[i]] : imagesSet[imagesList[i]][s]})

\* Three images, one with two true labels, one with a false label only.
C10_Witness ==
    /\ pc = "done"
    /\ DOMAIN imagesSet = {RFoo, RFoo10, <<"R">>}
    /\ imagesSet[RFoo] = (A10 :> TRUE) @@ (A2 :> TRUE)
    /\ imagesSet[RFoo10] = (A2 :> FALSE)
    /\ imagesSet[<<"R">>] = (A2 :> TRUE)
    /\ imagesList = <<<<"R">>, RFoo, RFoo10>>

\* The steps from a node to a child: by key into a mapping, by index into a
\* sequence.
WalkSteps ==
    {[key |-> k, idx |-> 0] : k \in WalkKeys} \cup {[key |-> "", idx |-> i] : i \in 1..MaxElems}

\* The node reached from node along path, Absent when the path leaves the tree.
RECURSIVE NodeAt(_, _)
NodeAt(node, path) ==
    IF path = <<>> THEN node
    ELSE IF node.k = "map" /\ Head(path).idx = 0 /\ Head(path).key \in DOMAIN node.m
    THEN NodeAt(node.m[Head(path).key], Tail(path))
    ELSE IF node.k = "seq" /\ Head(path).idx \in 1..Len(node.e)
    THEN NodeAt(node.e[Head(path).idx], Tail(path))
    ELSE Absent

\* The places of the tree that hold a mapping.
MappingPlaces == {p \in SeqsUpTo(WalkSteps, MaxDepth) : NodeAt(root, p).k = "map"}

\* C11: either walk hands every mapping of the tree to the walk function
\* exactly once, the root and the mappings inside sequences included, and
\* hands it nothing else.
C11_EveryMappingOnce ==
    pc \in {"walkedThrough", "walkedMap"} =>
        \A m \in {NodeAt(root, p).m : p \in MappingPlaces} \cup Range(visits) :
            Cardinality({i \in DOMAIN visits : visits[i] = m})
                = Cardinality({p \in MappingPlaces : NodeAt(root, p).m = m})

\* Source s is true for image i in accumulator set.
IsTrueIn(set, i, s) == i \in DOMAIN set /\ s \in DOMAIN set[i] /\ set[i][s]

\* C12: a step of GetImages outside the normalizer removes no key and leaves
\* every true (image, source) entry true; a step of the normalizer leaves the
\* true entries of the keys it keeps true, and removes a key only with every
\* true source of the key true under the rewritten key.
C12_OnlyGrows ==
    [][\A i \in DOMAIN imagesSet :
          /\ pc # "converting" => i \in DOMAIN imagesSet'
          /\ i \in DOMAIN imagesSet' =>
                \A s \in DOMAIN imagesSet[i] : imagesSet[i][s] => IsTrueIn(imagesSet', i, s)
          /\ i \notin DOMAIN imagesSet' =>
                /\ Mirror(i) # i
                /\ \A s \in DOMAIN imagesSet[i] :
                      imagesSet[i][s] => IsTrueIn(imagesSet', Mirror(i), s)]_vars

\* After the normalizer: a key with sources from two phases was removed, its
\* sources now under the rewritten key, which had a source of its own.
C12_Witness ==
    /\ pc = "lists"
    /\ \E i \in DOMAIN before \ DOMAIN imagesSet :
          /\ Cardinality({s \in DOMAIN before[i] : before[i][s]}) >= 2
          /\ Mirror(i) \in DOMAIN before
          /\ \E s \in DOMAIN before[Mirror(i)] : ~IsTrueIn(before, i, s)
          /\ \A s \in DOMAIN before[i] : IsTrueIn(imagesSet, Mirror(i), s)

\* The fetch from the repository at path fails.
FetchFails(path) ==
    /\ path # NoPath
    /\ \E r \in FetchImagesFromCharts(path, repos[path], rancherVersion, osType,
                                      SomeOrder(DOMAIN repos[path].entries)) :
          r.err # NoError

\* The error of the first stage that fails, none when no stage does; a stage
\* without input does not fail.
FirstFailure ==
    IF FetchFails(systemChartPath) THEN ErrSystemCharts
    ELSE IF FetchFails(chartPath) THEN ErrCharts
    ELSE IF rkeSystemImages # EmptyMap /\ \E v \in DOMAIN rkeSystemImages :
                                              rkeSystemImages[v] = Unconvertible
    THEN ErrSystem
    ELSE NoError

\* The phases of GetImages up to the stage named by an error, that stage included.
PhasesUpTo(stage) ==
    IF stage = ErrSystemCharts THEN {"systemCharts"}
    ELSE IF stage = ErrCharts THEN {"systemCharts", "charts"}
    ELSE {"systemCharts", "charts", "system"}

\* C13: GetImages ends with the error of the first stage that fails, and then
\* with no lists and with nothing run after that stage: no image handed to
\* the accumulator by a later phase (the failing stage may have handed it
\* some before it failed), no normalization, no further step; it ends
\* without error when no stage with an input fails.
C13_FailFast ==
    /\ pc \in {"failed", "done"} => err = FirstFailure
    /\ pc \notin {"failed", "done"} => err = NoError
    /\ pc = "failed" =>
          /\ err # NoError
          /\ imagesList = <<>>
          /\ imagesAndSourcesList = <<>>
          /\ \A e \in emitted : e.phase \in PhasesUpTo(err)
          /\ before = EmptyMap
          /\ toVisit = {}
          /\ ~ENABLED Next

\* The charts stage failed after the system charts had given images and
\* after it had given one itself, with system images and caller-supplied
\* images waiting.
C13_Witness ==
    /\ pc = "failed"
    /\ err = ErrCharts
    /\ \E e \in emitted : e.phase = "systemCharts"
    /\ \E e \in emitted : e.phase = "charts"
    /\ DOMAIN imagesSet # {}
    /\ rkeSystemImages # EmptyMap
    /\ k3sUpgradeImages # <<>>
    /\ imagesFromArgs # <<>>

=============================================================================
